---------------------------- MODULE Spec2Model ----------------------------
(***************************************************************************)
(* Model of heco-energy/importer/import_csv_to_influx.py.                  *)
(*                                                                         *)
(*  - Text is a sequence of one-character strings; the two regular         *)
(*    expressions, str.replace, str.strip, strptime, float and the CSV     *)
(*    reading are computed character by character.                         *)
(*  - Spec is the watch loop main() over the three directories, with the   *)
(*    external producer and a process kill/restart.                        *)
(*  - ParseSpec applies the three parsers to bounded inputs.               *)
(***************************************************************************)
EXTENDS Integers, Sequences, FiniteSets, TLC

(***************************************************************************)
(* Characters                                                              *)
(***************************************************************************)
DigitChars == <<"0", "1", "2", "3", "4", "5", "6", "7", "8", "9">>

IsDigit(c) == \E i \in 1..Len(DigitChars) : DigitChars[i] = c

DigitVal(c) == (CHOOSE i \in 1..Len(DigitChars) : DigitChars[i] = c) - 1

\* \s of the re module, and the characters str.strip() removes
IsSpace(c) == c \in {" ", "\t", "\n", "\r"}

UpperChars == <<"A", "B", "C", "D", "E", "F", "G", "H", "I", "J", "K", "L", "M",
                "N", "O", "P", "Q", "R", "S", "T", "U", "V", "W", "X", "Y", "Z">>

LowerChars == <<"a", "b", "c", "d", "e", "f", "g", "h", "i", "j", "k", "l", "m",
                "n", "o", "p", "q", "r", "s", "t", "u", "v", "w", "x", "y", "z">>

\* str.lower() on one character
LowerChar(c) ==
    IF \E i \in 1..Len(UpperChars) : UpperChars[i] = c
    THEN LowerChars[CHOOSE i \in 1..Len(UpperChars) : UpperChars[i] = c]
    ELSE c

Lower(s) == [i \in 1..Len(s) |-> LowerChar(s[i])]

(***************************************************************************)
(* String helpers                                                          *)
(***************************************************************************)
\* s[i..j] (1-based, inclusive); empty when j < i
Slice(s, i, j) == IF j < i THEN <<>> ELSE SubSeq(s, i, j)

\* does pat occur in s at position i
StartsAt(s, i, pat) ==
    /\ i + Len(pat) - 1 <= Len(s)
    /\ \A k \in 1..Len(pat) : s[i + k - 1] = pat[k]

\* s.endswith(suf)
EndsWith(s, suf) ==
    /\ Len(suf) <= Len(s)
    /\ StartsAt(s, Len(s) - Len(suf) + 1, suf)

RECURSIVE ReplaceFrom(_, _, _, _)
ReplaceFrom(s, i, pat, rep) ==
    IF i > Len(s) THEN <<>>
    ELSE IF StartsAt(s, i, pat)
         THEN rep \o ReplaceFrom(s, i + Len(pat), pat, rep)
         ELSE <<s[i]>> \o ReplaceFrom(s, i + 1, pat, rep)

\* str.replace(pat, rep): every non-overlapping occurrence, left to right
Replace(s, pat, rep) == ReplaceFrom(s, 1, pat, rep)

RECURSIVE LStrip(_)
LStrip(s) == IF s # <<>> /\ IsSpace(Head(s)) THEN LStrip(Tail(s)) ELSE s

RECURSIVE RStrip(_)
RStrip(s) ==
    IF s # <<>> /\ IsSpace(s[Len(s)]) THEN RStrip(SubSeq(s, 1, Len(s) - 1)) ELSE s

\* str.strip()
Strip(s) == RStrip(LStrip(s))

\* number of consecutive digits of s from position i
RECURSIVE DigitRun(_, _)
DigitRun(s, i) ==
    IF i <= Len(s) /\ IsDigit(s[i]) THEN 1 + DigitRun(s, i + 1) ELSE 0

\* number of consecutive whitespace characters of s from position i
RECURSIVE SpaceRun(_, _)
SpaceRun(s, i) ==
    IF i <= Len(s) /\ IsSpace(s[i]) THEN 1 + SpaceRun(s, i + 1) ELSE 0

\* value of the digit string s (0 for the empty string)
RECURSIVE DigitsVal(_)
DigitsVal(s) ==
    IF s = <<>> THEN 0
    ELSE 10 * DigitsVal(SubSeq(s, 1, Len(s) - 1)) + DigitVal(s[Len(s)])

(***************************************************************************)
(* Literals of the source                                                  *)
(***************************************************************************)
LabelFused == <<"S", "t", "a", "r", "t", "k", "W", "h">>

LabelSpaced == <<"S", "t", "a", "r", "t", " ", "k", "W", "h">>

ColStart == <<"s", "t", "a", "r", "t">>

ColKwh == <<"k", "w", "h">>

ExtCsv == <<".", "c", "s", "v">>

ExtTxt == <<".", "t", "x", "t">>

HST == "Pacific/Honolulu"

(***************************************************************************)
(* DT_RE: \d{1,2}/\d{1,2}/\d{4}\s+\d{1,2}:\d{2}:\d{2}\s+(?:AM|PM)          *)
(* The match attempted at position i; the result is the position after    *)
(* the match, or 0 when there is no match at i.  Every repetition is      *)
(* followed by a character outside its class, so no backtracking choice   *)
(* remains: a digit run must have exactly an allowed length.              *)
(***************************************************************************)
\* a digit field of lo..hi digits at i followed by the literal character
\* lit: the position after lit, or 0
DigitsThen(s, i, lo, hi, lit) ==
    LET n == DigitRun(s, i)
    IN  IF i > 0 /\ n >= lo /\ n <= hi /\ i + n <= Len(s) /\ s[i + n] = lit
        THEN i + n + 1 ELSE 0

\* a digit field of lo..hi digits at i followed by \s+ : the position
\* after the whitespace, or 0
DigitsThenSpace(s, i, lo, hi) ==
    LET n == DigitRun(s, i)
        w == SpaceRun(s, i + n)
    IN  IF i > 0 /\ n >= lo /\ n <= hi /\ w >= 1 THEN i + n + w ELSE 0

\* (?:AM|PM) at i: the position after it, or 0
Meridiem(s, i) ==
    IF i > 0 /\ (StartsAt(s, i, <<"A", "M">>) \/ StartsAt(s, i, <<"P", "M">>))
    THEN i + 2 ELSE 0

MatchDT(s, i) ==
    LET p1 == DigitsThen(s, i, 1, 2, "/")
        p2 == DigitsThen(s, p1, 1, 2, "/")
        p3 == DigitsThenSpace(s, p2, 4, 4)
        p4 == DigitsThen(s, p3, 1, 2, ":")
        p5 == DigitsThen(s, p4, 2, 2, ":")
        p6 == DigitsThenSpace(s, p5, 2, 2)
    IN  Meridiem(s, p6)

\* DT_RE.finditer(s): the non-overlapping matches in scan order, each as
\* <<start, end>> with end the position after the match
RECURSIVE FindDTs(_, _)
FindDTs(s, i) ==
    IF i > Len(s) THEN <<>>
    ELSE LET e == MatchDT(s, i)
         IN  IF e > 0 THEN <<(<<i, e>>)>> \o FindDTs(s, e)
             ELSE FindDTs(s, i + 1)

(***************************************************************************)
(* NUM_RE: [-+]?\d+(?:\.\d+)?                                              *)
(***************************************************************************)
IsSign(c) == c \in {"-", "+"}

\* the match attempted at position i: the position after it, or 0
MatchNum(s, i) ==
    LET d == IF i <= Len(s) /\ IsSign(s[i]) THEN i + 1 ELSE i
        n == DigitRun(s, d)
        f == IF d + n <= Len(s) /\ s[d + n] = "." THEN DigitRun(s, d + n + 1) ELSE 0
    IN  IF n = 0 THEN 0
        ELSE IF f > 0 THEN d + n + 1 + f ELSE d + n

\* NUM_RE.search(s): the leftmost match as <<start, end>>, or <<0, 0>>
RECURSIVE NumSearchFrom(_, _)
NumSearchFrom(s, i) ==
    IF i > Len(s) THEN <<0, 0>>
    ELSE IF MatchNum(s, i) > 0 THEN <<i, MatchNum(s, i)>>
         ELSE NumSearchFrom(s, i + 1)

NumSearch(s) == NumSearchFrom(s, 1)

(***************************************************************************)
(* float(text) of a text NUM_RE matched: the value as mantissa m and the   *)
(* number e of decimal places, m / 10^e, with trailing zeros of the        *)
(* fraction removed so that equal numbers are equal values.                *)
(***************************************************************************)
RECURSIVE Normalise(_, _)
Normalise(m, e) ==
    IF e > 0 /\ m % 10 = 0 THEN Normalise(m \div 10, e - 1) ELSE [m |-> m, e |-> e]

Float(t) ==
    LET neg  == t # <<>> /\ t[1] = "-"
        d    == IF t # <<>> /\ IsSign(t[1]) THEN 2 ELSE 1
        n    == DigitRun(t, d)
        f    == IF d + n <= Len(t) /\ t[d + n] = "." THEN DigitRun(t, d + n + 1) ELSE 0
        mant == DigitsVal(Slice(t, d, d + n - 1) \o Slice(t, d + n + 1, d + n + f))
    IN  Normalise(IF neg THEN 0 - mant ELSE mant, f)

(***************************************************************************)
(* strptime(text, "%m/%d/%Y %I:%M:%S %p") and the datetime it builds       *)
(***************************************************************************)
IsLeap(y) == (y % 4 = 0 /\ y % 100 # 0) \/ y % 400 = 0

DaysInMonth(mo, y) ==
    IF mo = 2 THEN (IF IsLeap(y) THEN 29 ELSE 28)
    ELSE IF mo \in {4, 6, 9, 11} THEN 30 ELSE 31

\* %I and %p to the hour of the day
Hour24(h, pm) == IF pm THEN (IF h = 12 THEN 12 ELSE h + 12)
                 ELSE (IF h = 12 THEN 0 ELSE h)

NoTime == [ok |-> FALSE, y |-> 0, mo |-> 0, d |-> 0, h |-> 0, mi |-> 0, s |-> 0]

\* the positions after each part of the format in t, 0 where t stops
\* matching: %m/ %d/ %Y\s+ %I: %M: %S\s+ %p
FormatEnds(t, p1, p2, p3, p4, p5, p6) ==
    [p1 |-> p1, p2 |-> p2, p3 |-> p3, p4 |-> p4, p5 |-> p5, p6 |-> p6,
     p7 |-> IF p6 > 0 /\ LowerChar(t[p6])  \in {"a", "p"}
                     /\ p6 + 1 <= Len(t) /\ LowerChar(t[p6 + 1]) = "m"
            THEN p6 + 2 ELSE 0]

FormatMatch(t) ==
    LET p1 == DigitsThen(t, 1, 1, 2, "/")
        p2 == DigitsThen(t, p1, 1, 2, "/")
        p3 == DigitsThenSpace(t, p2, 4, 4)
        p4 == DigitsThen(t, p3, 1, 2, ":")
        p5 == DigitsThen(t, p4, 1, 2, ":")
        p6 == DigitsThenSpace(t, p5, 1, 2)
    IN  FormatEnds(t, p1, p2, p3, p4, p5, p6)

\* the datetime of the fields, which datetime() rejects when a field is out
\* of range (a day past the month's end, a second > 59, the year 0)
MakeTime(mo, d, y, h, mi, s, pm) ==
    IF /\ mo \in 1..12
       /\ y >= 1
       /\ d >= 1 /\ d <= DaysInMonth(mo, y)
       /\ h \in 1..12
       /\ mi \in 0..59
       /\ s \in 0..59
    THEN [ok |-> TRUE, y |-> y, mo |-> mo, d |-> d,
          h |-> Hour24(h, pm), mi |-> mi, s |-> s]
    ELSE NoTime

\* the digits of t from position i up to the next non-digit, as a number
FieldVal(t, i) == DigitsVal(Slice(t, i, i + DigitRun(t, i) - 1))

TimeOfMatch(t, e) ==
    IF e.p7 = 0 \/ e.p7 # Len(t) + 1 THEN NoTime
    ELSE MakeTime(FieldVal(t, 1), FieldVal(t, e.p1), FieldVal(t, e.p2),
                  FieldVal(t, e.p3), FieldVal(t, e.p4), FieldVal(t, e.p5),
                  LowerChar(t[e.p6]) = "p")

\* The whole of t must match the format: the fields are 1..2 digits (the
\* year 4), each followed by its separator, AM/PM in either case.
Strptime(t) == TimeOfMatch(t, FormatMatch(t))

(***************************************************************************)
(* Results of the parsers: a batch of rows, or the exception raised        *)
(***************************************************************************)
Ok(rows) == [ok |-> TRUE, err |-> "none", rows |-> rows]

Raise(kind) == [ok |-> FALSE, err |-> kind, rows |-> <<>>]

\* a row (dt_local, kwh): the civil time, its zone, the value
Row(t, v) == [dt |-> [y |-> t.y, mo |-> t.mo, d |-> t.d, h |-> t.h,
                      mi |-> t.mi, s |-> t.s, tz |-> HST],
              kwh |-> v]

(***************************************************************************)
(* parse_collapsed_text                                                    *)
(***************************************************************************)
\* a variant of lines 39-40 that deletes the label instead of putting a
\* space in its place
CleanedFused(text) ==
    LET a == Replace(text, <<"\r">>, <<" ">>)
        b == Replace(a, <<"\n">>, <<" ">>)
        c == Replace(b, LabelFused, <<>>)
    IN  Replace(c, LabelSpaced, <<>>)

\* lines 39-40
Cleaned(text) ==
    LET a == Replace(text, <<"\r">>, <<" ">>)
        b == Replace(a, <<"\n">>, <<" ">>)
        c == Replace(b, LabelFused, <<" ">>)
    IN  Replace(c, LabelSpaced, <<" ">>)

\* line 48-50: the text between match i and the next match (or the end)
Between(cleaned, dts, i) ==
    LET start == dts[i][2]
        end   == IF i + 1 <= Len(dts) THEN dts[i + 1][1] ELSE Len(cleaned) + 1
    IN  Strip(Slice(cleaned, start, end - 1))

\* lines 56-61: the row of one timestamp and the number found after it
CollapsedRow(dt_str, num) == [t |-> Strptime(dt_str), kwh |-> Float(num)]

\* lines 52-61 for match i: "skip" (continue), "raise", or the row
CollapsedStep(cleaned, dts, i, between, nm) ==
    IF nm[1] = 0 THEN [do |-> "skip"]
    ELSE [do |-> "row",
          row |-> CollapsedRow(Slice(cleaned, dts[i][1], dts[i][2] - 1),
                               Slice(between, nm[1], nm[2] - 1))]

CollapsedBody(cleaned, dts, i, between) ==
    CollapsedStep(cleaned, dts, i, between, NumSearch(between))

\* lines 45-61, from match i on, rows being the list built so far
RECURSIVE CollapsedLoop(_, _, _, _)
CollapsedNext(cleaned, dts, i, rows, step) ==
    IF step.do = "skip" THEN CollapsedLoop(cleaned, dts, i + 1, rows)
    ELSE IF ~step.row.t.ok THEN Raise("RecoveryValueError")
    ELSE CollapsedLoop(cleaned, dts, i + 1,
                       Append(rows, Row(step.row.t, step.row.kwh)))

CollapsedLoop(cleaned, dts, i, rows) ==
    IF i > Len(dts) THEN Ok(rows)
    ELSE CollapsedNext(cleaned, dts, i, rows,
                       CollapsedBody(cleaned, dts, i, Between(cleaned, dts, i)))

\* lines 42-63
CollapsedRows(cleaned) == CollapsedLoop(cleaned, FindDTs(cleaned, 1), 1, <<>>)

parse_collapsed_text(text) == CollapsedRows(Cleaned(text))

(***************************************************************************)
(* pd.read_csv(path, sep=sep, engine="python") on text without quotes:     *)
(* records end at a line break, fields at sep, empty lines are skipped,    *)
(* the first record is the header, short rows are padded with NaN.  A row  *)
(* longer than the header (which pandas takes as an index column or        *)
(* rejects) is modelled as a ParserError; the inputs drawn below have none.*)
(***************************************************************************)
\* the position of the k-th character of s that is in seps; 0 before the
\* first and Len(s) + 1 after the last
CutAt(s, seps, k) ==
    LET cuts == {i \in 1..Len(s) : s[i] \in seps}
    IN  IF k = 0 THEN 0
        ELSE IF k > Cardinality(cuts) THEN Len(s) + 1
        ELSE CHOOSE i \in cuts : Cardinality({j \in cuts : j < i}) = k - 1

\* s split at every character that is in seps
Split(s, seps) ==
    [k \in 1..(Cardinality({i \in 1..Len(s) : s[i] \in seps}) + 1) |->
        SubSeq(s, CutAt(s, seps, k - 1) + 1, CutAt(s, seps, k) - 1)]

\* a record pandas skips (skip_blank_lines): one field, blank after strip
IsEmptyLine(fields) == Len(fields) = 1 /\ Strip(fields[1]) = <<>>

Fields(lines, sep) == [i \in 1..Len(lines) |-> Split(lines[i], {sep})]

Records(text, sep) ==
    SelectSeq(Fields(Split(text, {"\n", "\r"}), sep), LAMBDA f : ~IsEmptyLine(f))

NoFrame == [ok |-> FALSE, err |-> "none", header |-> <<>>, data |-> <<>>]

Frame(recs) ==
    IF recs = <<>> THEN [NoFrame EXCEPT !.err = "EmptyDataError"]
    ELSE IF \E i \in 2..Len(recs) : Len(recs[i]) > Len(recs[1])
         THEN [NoFrame EXCEPT !.err = "ParserError"]
         ELSE [ok |-> TRUE, err |-> "none", header |-> recs[1],
               data |-> Tail(recs)]

ReadCsv(text, sep) == Frame(Records(text, sep))

\* df.shape[1]
NCols(df) == Len(df.header)

(***************************************************************************)
(* parse_start_kwh_csv                                                     *)
(***************************************************************************)
Seps == <<",", "\t", ";">>

\* lines 74-82: the frame bound to df after the loop (ok = FALSE: None) and
\* last_err, from the k-th delimiter on
RECURSIVE SepLoop(_, _, _, _)
SepStep(text, k, last_err, r) ==
    IF r.ok
    THEN IF NCols(r) >= 2 THEN [df |-> r, last_err |-> last_err]
         ELSE SepLoop(text, k + 1, r, last_err)
    ELSE SepLoop(text, k + 1, NoFrame, r.err)

SepLoop(text, k, df, last_err) ==
    IF k > Len(Seps) THEN [df |-> df, last_err |-> last_err]
    ELSE SepStep(text, k, last_err, ReadCsv(text, Seps[k]))

\* line 88: str(c).strip().lower()
NormCol(c) == Lower(Strip(c))

HasCol(df, name) == \E j \in 1..NCols(df) : NormCol(df.header[j]) = name

ColIndex(df, name) == CHOOSE j \in 1..NCols(df) : NormCol(df.header[j]) = name

\* the cell of row r in column j; a missing or empty field is NaN
Cell(r, j) == IF j <= Len(r) THEN r[j] ELSE <<>>

IsNA(cell) == cell = <<>>

NaT == [nat |-> TRUE]

NaN == [nan |-> TRUE]

\* lines 94-99: one start cell; NaN becomes NaT, anything else must match
StartCellOk(cell) == IsNA(cell) \/ Strptime(cell).ok

\* line 102: one kwh cell; NaN stays NaN, anything else must be a number
KwhCellOk(cell) == IsNA(cell) \/ MatchNum(cell, 1) = Len(cell) + 1

\* lines 99 and 102: the converted cells
StartCell(cell) == IF IsNA(cell) THEN NaT ELSE Row(Strptime(cell), 0).dt

KwhCell(cell) == IF IsNA(cell) THEN NaN ELSE Float(cell)

\* line 104: the row built from one record
StrictRow(r, js, jk) == [dt |-> StartCell(Cell(r, js)), kwh |-> KwhCell(Cell(r, jk))]

\* lines 94-105 on the columns js and jk of the frame
FrameRows(data, js, jk) ==
    IF \E i \in 1..Len(data) : ~StartCellOk(Cell(data[i], js))
    THEN Raise("TimestampFormatError")
    ELSE IF \E i \in 1..Len(data) : ~KwhCellOk(Cell(data[i], jk))
    THEN Raise("ValueFormatError")
    ELSE Ok([i \in 1..Len(data) |-> StrictRow(data[i], js, jk)])

\* lines 84-105, l being the frame and the error the loop ended with
StrictRows(l) ==
    IF ~l.df.ok
    THEN Raise(IF l.last_err # "none" THEN l.last_err ELSE "RuntimeError")
    ELSE IF ~(HasCol(l.df, ColStart) /\ HasCol(l.df, ColKwh))
    THEN Raise("SchemaMismatch")
    ELSE FrameRows(l.df.data, ColIndex(l.df, ColStart), ColIndex(l.df, ColKwh))

parse_start_kwh_csv(text) == StrictRows(SepLoop(text, 1, NoFrame, "none"))

(***************************************************************************)
(* parse_file                                                              *)
(***************************************************************************)
\* a variant of lines 118-121 that re-raises whatever the recovery found
FallbackReraise(strict, rec) == strict

\* lines 118-121, strict being the exception caught at line 114
Fallback(strict, rec) ==
    IF ~rec.ok THEN rec                      \* raised inside the handler
    ELSE IF rec.rows = <<>> THEN strict      \* line 120: bare raise
    ELSE rec

\* lines 112-121
TryStrict(content, strict) ==
    IF strict.ok THEN strict
    ELSE Fallback(strict, parse_collapsed_text(content))

parse_file(content) == TryStrict(content, parse_start_kwh_csv(content))

(***************************************************************************)
(* The entries the external producer may put into /incoming: a name, plain *)
(* file or directory, and the file's bytes.                                *)
(***************************************************************************)
TS1 ==
    <<"1", "/", "1", "/", "2", "0", "2", "5", " ", "1", "2", ":", "0", "0",
    ":", "0", "0", " ", "A", "M">>

TS2 ==
    <<"1", "/", "1", "/", "2", "0", "2", "5", " ", "1", "2", ":", "1", "5",
    ":", "0", "0", " ", "P", "M">>

\* matches DT_RE, but is no date: month 13
TSBad ==
    <<"1", "3", "/", "1", "/", "2", "0", "2", "5", " ", "1", "2", ":", "0",
    "0", ":", "0", "0", " ", "A", "M">>

Num1 ==
    <<"0", ".", "5", "2">>

Num2 ==
    <<"-", "3">>

HeaderStartKwh ==
    <<"S", "t", "a", "r", "t", ",", "k", "W", "h">>

NameA ==
    <<"a", ".", "c", "s", "v">>

NameB ==
    <<"B", ".", "T", "X", "T">>

NameDat ==
    <<"x", ".", "d", "a", "t">>

NameDir ==
    <<"d", ".", "c", "s", "v">>

NameHidden ==
    <<".", "h", ".", "c", "s", "v">>

NL == <<"\n">>

\* Start,kWh and one well-formed row
TableOneRow == HeaderStartKwh \o NL \o TS1 \o <<",">> \o Num1 \o NL

\* Start,kWh and no row
TableNoRow == HeaderStartKwh \o NL

\* no table, and a timestamp-like text that is no date followed by a number
TextBadDate == TSBad \o <<" ">> \o Num1

FileIds == {"valid", "again", "broken", "dat", "dir", "hidden"}

\* "again" is a second file with the name of "valid", dropped separately
Name(f) ==
    CASE f = "valid"  -> NameA
      [] f = "again"  -> NameA
      [] f = "broken" -> NameB
      [] f = "dat"    -> NameDat
      [] f = "dir"    -> NameDir
      [] f = "hidden" -> NameHidden

IsDir(f) == f = "dir"

Content(f) ==
    CASE f = "valid"  -> TableOneRow
      [] f = "again"  -> TableNoRow
      [] f = "broken" -> TextBadDate
      [] f = "dat"    -> TableOneRow
      [] f = "dir"    -> <<>>
      [] f = "hidden" -> TableOneRow

\* what parse_file does on each entry's bytes
ParseOutcome == [f \in FileIds |-> parse_file(Content(f))]

(***************************************************************************)
(* Bounds                                                                  *)
(***************************************************************************)
\* sink writes counted per file
MaxWrites == 2

\* kills of the process
MaxCrashes == 1

(***************************************************************************)
(* State                                                                   *)
(***************************************************************************)
VARIABLES
    loc,        \* where each entry is: "absent" (not dropped yet),
                \* "incoming", "processed", "failed", or "lost" (its path
                \* was overwritten by a move)
    pc,         \* the statement main() is at
    paths,      \* the entries of the glob list the for loop has not reached
    path,       \* the entry of the current iteration, or "none"
    rows,       \* the batch parse_file returned for it
    err,        \* the exception the iteration caught, or "none"
    written,    \* per entry, the sink writes performed with its batch
    crashes,    \* kills so far
    content,    \* ParseSpec: the text under the parsers
    table,      \* ParseSpec: the table the text was built from
    phase,      \* ParseSpec: which parsers have run
    strictOut,  \* ParseSpec: result of parse_start_kwh_csv
    recOut,     \* ParseSpec: result of parse_collapsed_text
    fileOut,    \* ParseSpec: result of parse_file
    outcome     \* what parse_file does on the bytes of each entry; the bytes
                \* of an entry never change

\* what the steps of the parsers leave alone
pipeVars == <<loc, pc, paths, path, rows, err, written, crashes, outcome>>

\* what the steps of main() leave alone
parseVars == <<content, table, phase, strictOut, recOut, fileOut, outcome>>

vars == <<loc, pc, paths, path, rows, err, written, crashes,
          content, table, phase, strictOut, recOut, fileOut, outcome>>

NoResult == Raise("none")

ParseIdle ==
    /\ content = <<>>
    /\ table = <<>>
    /\ phase = "idle"
    /\ strictOut = NoResult
    /\ recOut = NoResult
    /\ fileOut = NoResult

\* the process has just been started; the directories are empty
Init ==
    /\ loc = [f \in FileIds |-> "absent"]
    /\ pc = "start"
    /\ paths = {}
    /\ path = "none"
    /\ rows = <<>>
    /\ err = "none"
    /\ written = [f \in FileIds |-> 0]
    /\ crashes = 0
    /\ outcome = ParseOutcome
    /\ ParseIdle

(***************************************************************************)
(* The file system                                                         *)
(***************************************************************************)
\* glob("*") does not list names that begin with a dot
Hidden(f) == Name(f)[1] = "."

\* a variant of line 165 that lists the failed directory as well
GlobWithFailed ==
    {f \in FileIds : loc[f] \in {"incoming", "failed"} /\ ~Hidden(f)}

\* glob.glob(os.path.join(IN_DIR, "*"))
Glob == {f \in FileIds : loc[f] = "incoming" /\ ~Hidden(f)}

\* a variant of lines 154-158 that compares the name as it is written
should_process_cased(f) ==
    IF IsDir(f) THEN FALSE
    ELSE EndsWith(Name(f), ExtCsv) \/ EndsWith(Name(f), ExtTxt)

\* a variant of lines 154-158 that takes every plain file
should_process_any(f) == ~IsDir(f)

\* lines 154-158
should_process(f) ==
    IF IsDir(f) THEN FALSE
    ELSE LET base == Lower(Name(f))
         IN  EndsWith(base, ExtCsv) \/ EndsWith(base, ExtTxt)

\* shutil.move(path, os.path.join(dir, base)) succeeding: a rename, which
\* replaces a file already at the destination path
Moved(f, dir) ==
    [g \in FileIds |->
        IF g = f THEN dir
        ELSE IF loc[g] = dir /\ Name(g) = Name(f) THEN "lost"
        ELSE loc[g]]

(***************************************************************************)
(* The external producer                                                   *)
(***************************************************************************)
Drop(f) ==
    /\ loc[f] = "absent"
    /\ \A g \in FileIds : loc[g] = "incoming" => Name(g) # Name(f)
    /\ loc' = [loc EXCEPT ![f] = "incoming"]
    /\ UNCHANGED <<pc, paths, path, rows, err, written, crashes>>
    /\ UNCHANGED parseVars

(***************************************************************************)
(* main()                                                                  *)
(***************************************************************************)
\* lines 161-162
Start ==
    /\ pc = "start"
    /\ pc' = "glob"
    /\ UNCHANGED <<loc, paths, path, rows, err, written, crashes>>
    /\ UNCHANGED parseVars

\* line 165: the list is taken once per sweep
List ==
    /\ pc = "glob"
    /\ paths' = Glob
    /\ pc' = "for"
    /\ UNCHANGED <<loc, path, rows, err, written, crashes>>
    /\ UNCHANGED parseVars

\* lines 166-167
Skip(f) ==
    /\ pc = "for"
    /\ f \in paths
    /\ ~should_process(f)
    /\ paths' = paths \ {f}
    /\ UNCHANGED <<loc, pc, path, rows, err, written, crashes>>
    /\ UNCHANGED parseVars

\* lines 166-170
Take(f) ==
    /\ pc = "for"
    /\ f \in paths
    /\ should_process(f)
    /\ paths' = paths \ {f}
    /\ path' = f
    /\ rows' = <<>>
    /\ err' = "none"
    /\ pc' = "parse"
    /\ UNCHANGED <<loc, written, crashes>>
    /\ UNCHANGED parseVars

\* line 171, r being what parse_file does on the file
Parsed(r) ==
    IF r.ok
    THEN /\ rows' = r.rows
         /\ pc' = "write"
         /\ err' = err
    ELSE /\ err' = r.err
         /\ pc' = "handler"
         /\ rows' = rows

Parse ==
    /\ pc = "parse"
    /\ Parsed(outcome[path])
    /\ UNCHANGED <<loc, paths, path, written, crashes>>
    /\ UNCHANGED parseVars

\* lines 127-128: nothing to write
WriteNothing ==
    /\ pc = "write"
    /\ rows = <<>>
    /\ pc' = "move"
    /\ UNCHANGED <<loc, paths, path, rows, err, written, crashes>>
    /\ UNCHANGED parseVars

\* lines 130-145: the batch is written
WriteOk ==
    /\ pc = "write"
    /\ rows # <<>>
    /\ written[path] < MaxWrites
    /\ written' = [written EXCEPT ![path] = @ + 1]
    /\ pc' = "move"
    /\ UNCHANGED <<loc, paths, path, rows, err, crashes>>
    /\ UNCHANGED parseVars

\* lines 130-143: the client or the write raises
WriteFails ==
    /\ pc = "write"
    /\ rows # <<>>
    /\ err' = "SinkWriteError"
    /\ pc' = "handler"
    /\ UNCHANGED <<loc, paths, path, rows, written, crashes>>
    /\ UNCHANGED parseVars

\* lines 174-175
MoveOk ==
    /\ pc = "move"
    /\ loc' = Moved(path, "processed")
    /\ pc' = "imported"
    /\ UNCHANGED <<paths, path, rows, err, written, crashes>>
    /\ UNCHANGED parseVars

\* line 175 raises: control goes to the handler of line 177
MoveFails ==
    /\ pc = "move"
    /\ err' = "RelocationError"
    /\ pc' = "handler"
    /\ UNCHANGED <<loc, paths, path, rows, written, crashes>>
    /\ UNCHANGED parseVars

\* lines 178-180
FailMoveOk ==
    /\ pc = "handler"
    /\ loc' = Moved(path, "failed")
    /\ pc' = "failedmsg"
    /\ UNCHANGED <<paths, path, rows, err, written, crashes>>
    /\ UNCHANGED parseVars

\* a variant of lines 178-180 without the inner try: the exception of the
\* move leaves main()
FailMoveEscapes ==
    /\ pc = "handler"
    /\ pc' = "stopped"
    /\ UNCHANGED <<loc, paths, path, rows, err, written, crashes>>
    /\ UNCHANGED parseVars

\* lines 180-182: the move raises and the error is dropped
FailMoveFails ==
    /\ pc = "handler"
    /\ pc' = "failedmsg"
    /\ UNCHANGED <<loc, paths, path, rows, err, written, crashes>>
    /\ UNCHANGED parseVars

\* line 176
PrintImported ==
    /\ pc = "imported"
    /\ pc' = "for"
    /\ path' = "none"
    /\ rows' = <<>>
    /\ UNCHANGED <<loc, paths, err, written, crashes>>
    /\ UNCHANGED parseVars

\* line 183: the line printed names the file and e, the exception caught at
\* line 177; the exception of the move at line 180 is bound to no name
FailedMessage == [base |-> Name(path), e |-> err, to |-> "failed"]

\* line 183
PrintFailed ==
    /\ pc = "failedmsg"
    /\ pc' = "for"
    /\ path' = "none"
    /\ rows' = <<>>
    /\ err' = "none"
    /\ UNCHANGED <<loc, paths, written, crashes>>
    /\ UNCHANGED parseVars

\* line 185, and back to line 164
Sleep ==
    /\ pc = "for"
    /\ paths = {}
    /\ pc' = "glob"
    /\ UNCHANGED <<loc, paths, path, rows, err, written, crashes>>
    /\ UNCHANGED parseVars

\* the process is killed and started again: its memory is gone, the
\* directories and the sink are as they were
Crash ==
    /\ pc # "start"
    /\ crashes < MaxCrashes
    /\ crashes' = crashes + 1
    /\ pc' = "start"
    /\ paths' = {}
    /\ path' = "none"
    /\ rows' = <<>>
    /\ err' = "none"
    /\ UNCHANGED <<loc, written>>
    /\ UNCHANGED parseVars

\* the steps of main()
Sweep ==
    \/ Start
    \/ List
    \/ \E f \in FileIds : Skip(f)
    \/ \E f \in FileIds : Take(f)
    \/ Parse
    \/ WriteNothing
    \/ WriteOk
    \/ WriteFails
    \/ MoveOk
    \/ MoveFails
    \/ FailMoveOk
    \/ FailMoveFails
    \/ PrintImported
    \/ PrintFailed
    \/ Sleep

Next ==
    \/ \E f \in FileIds : Drop(f)
    \/ Sweep
    \/ Crash

Spec == Init /\ [][Next]_vars

(***************************************************************************)
(* ParseSpec: the three parsers on bounded inputs.  An input is a table   *)
(* (a header line, a delimiter, rows of a start cell and a value cell) or *)
(* free text (a sequence of pieces).                                       *)
(***************************************************************************)
\* rows per table
MaxRows == 2

\* pieces per free text
MaxPieces == 3

HeaderLoose == <<" ", "S", "T", "A", "R", "T", " ", ";", "k", "w", "h", " ">>

Junk == <<"x">>

\* header line and the delimiter its rows use
TableKinds ==
    { [header |-> HeaderStartKwh, sep |-> ","],
      [header |-> HeaderLoose,    sep |-> ";"] }

StartCells == {TS1, TS2, TSBad, <<>>}

ValueCells == {Num1, Num2, Junk, <<>>}

TableRows == [start : StartCells, value : ValueCells]

Pieces == {LabelFused, TS1, TSBad, Num1, Num2, Junk, <<" ">>}

SeqsUpTo(S, n) == UNION {[1..k -> S] : k \in 0..n}

Inputs ==
    { [kind |-> "table", header |-> k.header, sep |-> k.sep, rows |-> r,
       pieces |-> <<>>] : k \in TableKinds, r \in SeqsUpTo(TableRows, MaxRows) }
    \cup
    { [kind |-> "text", header |-> <<>>, sep |-> "", rows |-> <<>>,
       pieces |-> ps] : ps \in SeqsUpTo(Pieces, MaxPieces) }

RECURSIVE Concat(_)
Concat(ss) == IF ss = <<>> THEN <<>> ELSE Head(ss) \o Concat(Tail(ss))

\* the bytes of a table: the header line, then one line per row
TableText(t) ==
    t.header \o NL \o
    Concat([i \in 1..Len(t.rows) |->
               t.rows[i].start \o <<t.sep>> \o t.rows[i].value \o NL])

\* the same rows with delimiters and line breaks removed, each record
\* preceded by the label StartkWh
CollapsedForm(t) ==
    Concat([i \in 1..Len(t.rows) |->
               LabelFused \o t.rows[i].start \o t.rows[i].value])

TextOf(inp) == IF inp.kind = "table" THEN TableText(inp) ELSE Concat(inp.pieces)

PipeIdle ==
    /\ loc = [f \in FileIds |-> "absent"]
    /\ pc = "start"
    /\ paths = {}
    /\ path = "none"
    /\ rows = <<>>
    /\ err = "none"
    /\ written = [f \in FileIds |-> 0]
    /\ crashes = 0
    /\ outcome = ParseOutcome

ParseInit ==
    /\ PipeIdle
    /\ table \in Inputs
    /\ content = TextOf(table)
    /\ phase = "new"
    /\ strictOut = NoResult
    /\ recOut = NoResult
    /\ fileOut = NoResult

RunStrict ==
    /\ phase = "new"
    /\ strictOut' = parse_start_kwh_csv(content)
    /\ phase' = "strict"
    /\ UNCHANGED <<content, table, recOut, fileOut>>
    /\ UNCHANGED pipeVars

RunRecovery ==
    /\ phase = "strict"
    /\ recOut' = parse_collapsed_text(content)
    /\ phase' = "both"
    /\ UNCHANGED <<content, table, strictOut, fileOut>>
    /\ UNCHANGED pipeVars

RunFile ==
    /\ phase = "both"
    /\ fileOut' = parse_file(content)
    /\ phase' = "file"
    /\ UNCHANGED <<content, table, strictOut, recOut>>
    /\ UNCHANGED pipeVars

\* the recovery parser on the collapsed form of the table just parsed
RunCollapsed ==
    /\ phase = "file"
    /\ table.kind = "table"
    /\ content' = CollapsedForm(table)
    /\ recOut' = parse_collapsed_text(content')
    /\ phase' = "collapsed"
    /\ UNCHANGED <<table, strictOut, fileOut>>
    /\ UNCHANGED pipeVars

ParseNext ==
    \/ RunStrict
    \/ RunRecovery
    \/ RunFile
    \/ RunCollapsed

ParseSpec == ParseInit /\ [][ParseNext]_vars

\* The loop keeps running: the process is not killed, and a step of main()
\* that can be taken is taken.  The producer drops the entries of LivePool.
LivePool == {"valid", "again", "broken", "dat", "hidden"}

LiveDrop == \E f \in LivePool : Drop(f)

LiveNext ==
    \/ LiveDrop
    \/ Sweep

LiveSpec == Init /\ [][LiveNext]_vars /\ WF_vars(Sweep)

(***************************************************************************)
(* Properties                                                              *)
(***************************************************************************)
Terminal(f) == loc[f] \in {"processed", "failed"}

\* the plain files whose lower-cased name ends in .csv or .txt
RecognizedFiles ==
    {f \in FileIds :
        /\ ~IsDir(f)
        /\ EndsWith(Lower(Name(f)), ExtCsv) \/ EndsWith(Lower(Name(f)), ExtTxt)}

Recognized(f) == f \in RecognizedFiles

\* the entries whose name begins with a dot
HiddenFiles == {f \in FileIds : Hidden(f)}

\* the exceptions parse_start_kwh_csv raises
StrictErrors == {"EmptyDataError", "ParserError", "RuntimeError", "SchemaMismatch",
                 "TimestampFormatError", "ValueFormatError"}

\* parse_file and write_to_influx have both returned in this iteration
Succeeded == pc = "move" \/ (pc = "handler" /\ err = "RelocationError")

\* the iteration is working on f
Handling(f) == path = f /\ pc \in {"parse", "write", "move", "handler"}

\* C1: every entry that was ever in incoming is in exactly one of incoming,
\* processed, failed: never in none of them (loc gives each entry one place,
\* so it is never in two).
C1_InExactlyOneDirectory ==
    \A f \in FileIds : loc[f] # "absent" => loc[f] \in {"incoming", "processed", "failed"}

\* C2: without any kill of the process, no file's batch is written to the
\* sink twice, and a file in processed with a nonempty batch was written
\* exactly once.
C2_WrittenExactlyOnce ==
    crashes = 0 =>
        \A f \in FileIds :
            /\ written[f] <= 1
            /\ (loc[f] = "processed" /\ outcome[f].ok /\ outcome[f].rows # <<>>)
                  => written[f] = 1

\* C3: a file leaves incoming for processed when parse_file and
\* write_to_influx both succeeded and for failed when one of them failed,
\* and no sink write follows a parse failure.
C3_OutcomeRouting ==
    [][ \A f \in FileIds :
          /\ (loc[f] = "incoming" /\ Terminal(f)')
                => /\ path = f
                   /\ Succeeded => loc'[f] = "processed"
                   /\ ~Succeeded => loc'[f] = "failed"
          /\ (path = f /\ ~outcome[f].ok) => written'[f] = written[f] ]_vars

\* C4: once a file is in processed or failed it stays there, and no step
\* parses it, writes its batch or moves it.
C4_TerminalIsAbsorbing ==
    [][ \A f \in FileIds :
          Terminal(f) => /\ loc'[f] = loc[f]
                         /\ written'[f] = written[f]
                         /\ ~Handling(f)' ]_vars

Relocated(f) == path = f /\ (MoveOk \/ FailMoveOk)

Untouched(f) ==
    /\ ~Handling(f)'
    /\ written'[f] = 0
    /\ loc[f] = "incoming" => loc'[f] = "incoming"

C6_FallbackPolicy ==
    phase = "file" =>
        /\ strictOut.ok => fileOut = strictOut
        /\ (~strictOut.ok /\ recOut.ok /\ recOut.rows # <<>>) => fileOut = recOut
        /\ ~fileOut.ok => (~strictOut.ok /\ ~(recOut.ok /\ recOut.rows # <<>>))

\* a table whose second row the strict parser rejects and whose first row
\* the recovery parser returns
C6_Witness ==
    /\ phase = "file"
    /\ table.kind = "table"
    /\ Len(table.rows) = 2
    /\ strictOut.err = "ValueFormatError"
    /\ recOut.ok
    /\ Len(recOut.rows) = 1
    /\ fileOut = recOut

\* C7: whenever parse_file fails, the error is the one the strict parser
\* raised.
C7_ErrorIsTheStrictError ==
    (phase = "file" /\ ~fileOut.ok) =>
        /\ fileOut.err = strictOut.err
        /\ fileOut.err \in StrictErrors

\* the matches of DT_RE in the cleaned text whose span holds a number
Numbered(cleaned, dts) ==
    SelectSeq([i \in 1..Len(dts) |-> i],
              LAMBDA i : NumSearch(Between(cleaned, dts, i))[1] > 0)

FirstNumber(span) == Float(Slice(span, NumSearch(span)[1], NumSearch(span)[2] - 1))

OneRowPerNumbered(cleaned, dts, out) ==
    /\ out.ok
    /\ Len(out.rows) = Len(Numbered(cleaned, dts))
    /\ \A k \in 1..Len(out.rows) :
          out.rows[k].kwh =
              FirstNumber(Between(cleaned, dts, Numbered(cleaned, dts)[k]))

\* C8: parse_collapsed_text returns, in scan order, one row for each match
\* of DT_RE whose span holds a number, with the first number of the span,
\* and none for a match whose span holds no number.
C8_OneRowPerNumberedTimestamp ==
    phase = "both" =>
        OneRowPerNumbered(Cleaned(content), FindDTs(Cleaned(content), 1), recOut)

\* a table the strict parser accepts row by row: every start cell is a
\* timestamp of the grammar that is a date, every value cell a decimal
ValidTable(t) ==
    /\ t.kind = "table"
    /\ \A i \in 1..Len(t.rows) :
          /\ MatchDT(t.rows[i].start, 1) = Len(t.rows[i].start) + 1
          /\ Strptime(t.rows[i].start).ok
          /\ t.rows[i].value # <<>>
          /\ MatchNum(t.rows[i].value, 1) = Len(t.rows[i].value) + 1

\* C9: for a valid table, the recovery parser on the collapsed form returns
\* the rows the strict parser returns for the table, in the same order.
C9_ParserAgreement ==
    (phase = "collapsed" /\ ValidTable(table)) =>
        /\ strictOut.ok
        /\ Len(strictOut.rows) = Len(table.rows)
        /\ recOut.ok
        /\ recOut.rows = strictOut.rows

C9_Witness ==
    /\ phase = "collapsed"
    /\ ValidTable(table)
    /\ Len(table.rows) = 2
    /\ table.rows[1] # table.rows[2]
    /\ Len(recOut.rows) = 2
    /\ recOut.rows[1] # recOut.rows[2]

\* C11: an error of parsing, of the sink write or of a relocation leaves the
\* rest of the sweep's list as it was and takes main() back to the for
\* loop, and the loop goes on to the next listing.
C11_NoErrorIsFatal ==
    /\ [][ (pc \in {"handler", "failedmsg"} /\ pc' # pc)
              => /\ paths' = paths
                 /\ pc' = IF pc = "handler" THEN "failedmsg" ELSE "for" ]_vars
    /\ (pc = "handler") ~> (pc = "glob")

\* the write of one file has failed and another candidate is still listed
C11_Witness ==
    /\ pc = "failedmsg"
    /\ path = "valid"
    /\ err = "SinkWriteError"
    /\ "broken" \in paths

\* C12 as claimed: a file whose parse fails is parsed again after every
\* failure.
C12_RetriedEverySweep ==
    \A f \in RecognizedFiles \ HiddenFiles :
        (path = f /\ pc = "handler" /\ ~outcome[f].ok) ~> (path = f /\ pc = "parse")

\* C12 as amended: a file whose parse fails is parsed in every sweep that
\* lists it, which is every sweep that begins while it is in incoming; once
\* it is in failed it is never parsed again.
C12_RetriedWhileInIncoming ==
    /\ \A f \in RecognizedFiles \ HiddenFiles :
          (pc = "glob" /\ loc[f] = "incoming" /\ ~outcome[f].ok)
              ~> (path = f /\ pc = "parse")
    /\ [](\A f \in RecognizedFiles :
             (~outcome[f].ok /\ loc[f] = "failed") => ~Handling(f))

\* the parse of B.TXT has failed, the move to failed has failed too, and the
\* file is still in incoming for the next sweep
C12_Witness ==
    /\ pc = "failedmsg"
    /\ path = "broken"
    /\ err = "RecoveryValueError"
    /\ loc["broken"] = "incoming"

\* C13: after a kill and a new start, a file the loop parses or writes is in
\* incoming and its batch has not been written to the sink before.
C13_RestartSafety ==
    crashes >= 1 =>
        \A f \in FileIds :
            (path = f /\ pc \in {"parse", "write"})
                => (loc[f] = "incoming" /\ written[f] = 0)

\* a start cell that matches the timestamp format, a value cell that is a
\* decimal number
IsTimestampCell(c) == Strptime(c).ok

IsDecimalCell(c) == c # <<>> /\ MatchNum(c, 1) = Len(c) + 1

\* C14: the strict parser fails, with no rows, when the header lacks a
\* column, when a start cell does not match the timestamp format or when a
\* value cell is no decimal number; when it succeeds it returns one row per
\* row of the table.
C14_StrictAllOrNothing ==
    phase # "new" =>
        IF /\ table.kind = "table"
           /\ \A i \in 1..Len(table.rows) :
                 IsTimestampCell(table.rows[i].start) /\ IsDecimalCell(table.rows[i].value)
        THEN strictOut.ok /\ Len(strictOut.rows) = Len(table.rows)
        ELSE ~strictOut.ok /\ strictOut.rows = <<>>

\* a row with a timestamp and a number
WellFormed(row) == row.dt # NaT /\ row.kwh # NaN

\* C15: every row either parser or parse_file returns has a timestamp and a
\* finite number.
C15_SamplesAreWellFormed ==
    /\ \A k \in 1..Len(strictOut.rows) : WellFormed(strictOut.rows[k])
    /\ \A k \in 1..Len(recOut.rows) : WellFormed(recOut.rows[k])
    /\ \A k \in 1..Len(fileOut.rows) : WellFormed(fileOut.rows[k])

\* C16: while the loop handles a file whose batch is empty, nothing is
\* written to the sink for it and it is not moved to failed.
C16_EmptyBatchIsImported ==
    [][ \A f \in FileIds :
          (Handling(f) /\ outcome[f].ok /\ outcome[f].rows = <<>>)
              => (written'[f] = written[f] /\ loc'[f] # "failed") ]_vars

\* C17: when the move to failed has failed, the file is still in incoming
\* and the line printed for it reports the relocation error.
C17_RelocationFailureLogged ==
    (pc = "failedmsg" /\ loc[path] # "failed") =>
        /\ loc[path] = "incoming"
        /\ FailedMessage.e = "RelocationError"

\* C18: a file is moved to failed only when its parse or its sink write has
\* failed.
C18_FailedOnlyAfterFailure ==
    [][ \A f \in FileIds :
          (loc[f] # "failed" /\ loc'[f] = "failed")
              => (path = f /\ err \in StrictErrors \cup {"RecoveryValueError", "SinkWriteError"}) ]_vars

\* C19: a move changes the place of the file it moves and of no other file
\* (a file the producer drops becomes present; nothing else changes place).
C19_MoveChangesOnlyThatFile ==
    [][ \A f \in FileIds :
          (loc[f] # "absent" /\ loc'[f] # loc[f]) => path = f ]_vars

=============================================================================
